---- MODULE Spec2Model ----
(***************************************************************************)
(* Versioned configuration registry (app/api.py, app/db.py,                *)
(* app/validation.py).  The table `configurations` is a sequence of rows;  *)
(* every POST /config/<service> request is a process that runs the         *)
(* inlineCallbacks generator post_config from one yield to the next.       *)
(***************************************************************************)
EXTENDS Integers, Sequences, FiniteSets, TLC

(* ---------------- bounds of the model ---------------- *)

\* number of POST /config/<service> requests, numbered in arrival order
MaxRequests == 2
\* number of rows, stored or about to be, while history is read
MaxRows == 5
\* the `limit` arguments of get_history range over 0..MaxLimit
MaxLimit == 3
\* the `version` values a caller may supply
ExplicitVersions == {0, 1}

Requests == 1..MaxRequests
Services == {"a", "b"}

(* ---------------- document trees ---------------- *)
\* A parsed YAML/JSON value is a tagged node; Python None is Null.

Null == [t |-> "null"]
IntV(n) == [t |-> "int", i |-> n]
StrV(s) == [t |-> "str", s |-> s]
BoolV(b) == [t |-> "bool", b |-> b]
MapV(f) == [t |-> "map", m |-> f]
ListV(q) == [t |-> "list", l |-> q]
\* a float, kept as its literal
FloatV(x) == [t |-> "float", x |-> x]

\* dict[key] = value (insert or overwrite), as a new function
DictSet(f, key, value) ==
  [k \in (DOMAIN f) \cup {key} |-> IF k = key THEN value ELSE f[k]]

\* dict.get(key)
DictGet(f, key) == IF key \in DOMAIN f THEN f[key] ELSE Null

\* the numeric value of a Python int (bool is a subclass of int)
IntOf(v) == IF v.t = "bool" THEN (IF v.b THEN 1 ELSE 0) ELSE v.i

(* ---------------- app/validation.py ---------------- *)

REQUIRED_FIELDS ==
  << <<"version", "int">>, <<"database.host", "str">>, <<"database.port", "int">> >>

\* path.split(".") for the paths the validator uses
split(path) ==
  CASE path = "version" -> <<"version">>
    [] path = "database.host" -> <<"database", "host">>
    [] path = "database.port" -> <<"database", "port">>

RECURSIVE digParts(_, _)
digParts(cur, parts) ==
  IF parts = <<>> THEN cur
  ELSE IF cur.t # "map" THEN Null
  ELSE IF Head(parts) \notin DOMAIN cur.m THEN Null
  ELSE digParts(cur.m[Head(parts)], Tail(parts))

dig(d, path) == digParts(d, split(path))

\* isinstance(val, expected_type); isinstance(True, int) holds in Python
isinstance(val, type) ==
  CASE type = "int" -> val.t \in {"int", "bool"}
    [] type = "str" -> val.t = "str"
    [] type = "dict" -> val.t = "map"

\* strings made only of whitespace strip to the empty string
BlankStrings == {"", " ", "  "}
strip(s) == IF s \in BlankStrings THEN "" ELSE s

\* one iteration of the loop over REQUIRED_FIELDS
FieldErrors(doc, field) ==
  LET path == field[1]
      expected_type == field[2]
      val == dig(doc, path)
  IN IF val = Null /\ path # "version"
       THEN << "Missing required field: " \o path >>
     ELSE IF val # Null /\ ~isinstance(val, expected_type)
       THEN << "Invalid type for " \o path \o ": expected " \o expected_type >>
     ELSE << >>

PortErrors(doc) ==
  LET port == dig(doc, "database.port")
  IN IF isinstance(port, "int") /\ ~(1 <= IntOf(port) /\ IntOf(port) <= 65535)
       THEN << "Invalid database.port: must be 1..65535" >>
       ELSE << >>

HostErrors(doc) ==
  LET host == dig(doc, "database.host")
  IN IF isinstance(host, "str") /\ strip(host.s) = ""
       THEN << "Invalid database.host: must be non-empty string" >>
       ELSE << >>

\* a validator that returns at its first violation
validate_fail_fast(doc) ==
  LET all == FieldErrors(doc, REQUIRED_FIELDS[1]) \o FieldErrors(doc, REQUIRED_FIELDS[2])
               \o FieldErrors(doc, REQUIRED_FIELDS[3]) \o PortErrors(doc) \o HostErrors(doc)
  IN IF all = << >> THEN all ELSE <<Head(all)>>

validate_config_payload(doc) ==
  FieldErrors(doc, REQUIRED_FIELDS[1]) \o FieldErrors(doc, REQUIRED_FIELDS[2])
    \o FieldErrors(doc, REQUIRED_FIELDS[3]) \o PortErrors(doc) \o HostErrors(doc)

(* ---------------- app/db.py ---------------- *)

\* json.dumps of a JSON-compatible tree, as the jsonb value the store keeps
RECURSIVE json_dumps(_)
json_dumps(d) ==
  CASE d.t = "map" -> MapV([k \in DOMAIN d.m |-> json_dumps(d.m[k])])
    [] d.t = "list" -> ListV([j \in DOMAIN d.l |-> json_dumps(d.l[j])])
    [] OTHER -> d

\* a SELECT that consumes the oldest row it scanned
select_consuming(table) == IF table = << >> THEN table ELSE Tail(table)

\* pool.runQuery of a SELECT statement: the table after the statement
select(table) == table

ServiceRows(table, service) ==
  {j \in DOMAIN table : table[j].service = service}

\* a table without the unique constraint
UniqueViolation_none(table, service, version) == FALSE

\* the unique constraint on (service, version) of table `configurations`
UniqueViolation(table, service, version) ==
  \E j \in ServiceRows(table, service) : table[j].version = version

\* created_at: the timestamp the store assigns at persistence time, later for
\* every later insert
now(table) == Len(table) + 1

\* insert_config as an upsert: a colliding insert rewrites the stored payload
insert_config_upsert(table, service, version, payload) ==
  IF UniqueViolation(table, service, version)
    THEN [j \in DOMAIN table |->
            IF table[j].service = service /\ table[j].version = version
              THEN [table[j] EXCEPT !.payload = json_dumps(payload)]
              ELSE table[j]]
    ELSE Append(table, [id |-> Len(table) + 1,
                        service |-> service,
                        version |-> version,
                        payload |-> json_dumps(payload),
                        created_at |-> now(table)])

\* insert_config whose statement is never committed
insert_config_lost(table, service, version, payload) == table

\* INSERT INTO configurations(service, version, payload) ... RETURNING id
\* result: the table after the statement; id and created_at are assigned by
\* the store, in insertion order
insert_config(table, service, version, payload) ==
  IF UniqueViolation(table, service, version)
    THEN table
    ELSE Append(table, [id |-> Len(table) + 1,
                        service |-> service,
                        version |-> version,
                        payload |-> json_dumps(payload),
                        created_at |-> now(table)])

\* MAX(version) over the whole table, without the WHERE clause
get_latest_version_global(table, service) ==
  LET vs == {table[j].version : j \in DOMAIN table}
  IN IF vs = {} THEN Null
     ELSE IntV(CHOOSE v \in vs : \A w \in vs : w <= v)

\* SELECT MAX(version) FROM configurations WHERE service=%s
get_latest_version(table, service) ==
  LET vs == {table[j].version : j \in ServiceRows(table, service)}
  IN IF vs = {} THEN Null
     ELSE IntV(CHOOSE v \in vs : \A w \in vs : w <= v)

\* get_config without `WHERE service=%s`
get_config_any_service(table, service, version) ==
  LET match == IF version = Null
                 THEN {j \in DOMAIN table :
                         \A k \in DOMAIN table :
                           table[k].version <= table[j].version}
                 ELSE {j \in DOMAIN table : table[j].version = version.i}
  IN IF match = {} THEN Null
     ELSE LET j == CHOOSE k \in match : \A n \in match : k <= n
          IN [t |-> "row", version |-> table[j].version,
              payload |-> table[j].payload]

\* get_config whose latest row is the one of the lowest version
get_config_lowest(table, service, version) ==
  LET match == IF version = Null
                 THEN {j \in ServiceRows(table, service) :
                         \A k \in ServiceRows(table, service) :
                           table[j].version <= table[k].version}
                 ELSE {j \in ServiceRows(table, service) :
                         table[j].version = version.i}
  IN IF match = {} THEN Null
     ELSE LET j == CHOOSE k \in match : \A n \in match : k <= n
          IN [t |-> "row", version |-> table[j].version,
              payload |-> table[j].payload]

\* SELECT version, payload ... ; (version, payload) or None
get_config(table, service, version) ==
  LET match == IF version = Null
                 THEN {j \in ServiceRows(table, service) :
                         \A k \in ServiceRows(table, service) :
                           table[k].version <= table[j].version}
                 ELSE {j \in ServiceRows(table, service) :
                         table[j].version = version.i}
  IN IF match = {} THEN Null
     ELSE LET j == CHOOSE k \in match : \A n \in match : k <= n
          IN [t |-> "row", version |-> table[j].version,
              payload |-> table[j].payload]

\* to_char(created_at AT TIME ZONE 'UTC', 'YYYY-MM-DD"T"HH24:MI:SS"Z"') of
\* the store's clock value
to_char(created_at) == "T" \o ToString(created_at) \o "Z"

\* the first n of the rows js, ordered by version instead of created_at
RECURSIVE TopByVersion(_, _, _)
TopByVersion(table, js, n) ==
  IF n = 0 \/ js = {} THEN << >>
  ELSE LET j == CHOOSE k \in js :
                  \A o \in js : table[o].version <= table[k].version
       IN << <<table[j].version, to_char(table[j].created_at)>> >>
            \o TopByVersion(table, js \ {j}, n - 1)

\* ORDER BY created_at DESC LIMIT n over the rows js
RECURSIVE TopByCreated(_, _, _)
TopByCreated(table, js, n) ==
  IF n = 0 \/ js = {} THEN << >>
  ELSE LET j == CHOOSE k \in js :
                  \A o \in js : table[o].created_at <= table[k].created_at
       IN << <<table[j].version, to_char(table[j].created_at)>> >>
            \o TopByCreated(table, js \ {j}, n - 1)

\* get_history with ORDER BY version DESC
get_history_by_version(table, service, limit) ==
  TopByVersion(table, ServiceRows(table, service), limit)

\* SELECT version, to_char(created_at ...) ... ORDER BY created_at DESC LIMIT %s
get_history(table, service, limit) ==
  TopByCreated(table, ServiceRows(table, service), limit)

(* ---------------- app/templating.py ---------------- *)

\* the delimiters that open and close Jinja2 expressions and statements
Markers == {"{{", "}}", "{%", "%}"}

\* a string cut at its delimiters; a string without delimiters is one chunk
Chunks(s) ==
  CASE s = "{{host}}" -> <<"{{", "host", "}}">>
    [] s = "{{port}}" -> <<"{{", "port", "}}">>
    [] s = "{{missing}}" -> <<"{{", "missing", "}}">>
    [] s = "{{xs}}" -> <<"{{", "xs", "}}">>
    [] s = "{{xs.append(1)}}" -> <<"{{", "xs.append(1)", "}}">>
    [] s = "http://{{host}}:{{port}}" ->
         <<"http://", "{{", "host", "}}", ":", "{{", "port", "}}">>
    [] s = "{{host" -> <<"{{", "host">>
    [] s = "{% endif %}" -> <<"{%", " endif ", "%}">>
    [] s = "a}}" -> <<"a", "}}">>
    [] OTHER -> <<s>>

\* is_str and ("{{" in val or "{%" in val)
has_tpl(val) ==
  /\ val.t = "str"
  /\ \E k \in DOMAIN Chunks(val.s) : Chunks(val.s)[k] \in {"{{", "{%"}

\* the ValueError _render raises from a TemplateError
RenderError(msg) ==
  [t |-> "error", kind |-> "ValueError", msg |-> "Template render error: " \o msg]
\* render(**context) with a context that is not a mapping
ContextTypeError == [t |-> "error", kind |-> "TypeError", msg |-> ""]
IsError(v) == v.t = "error"

\* the expression between `{{` and `}}`: a name, or a method call on a name
parse_expr(e) ==
  CASE e = "xs.append(1)" ->
         [k |-> "call", name |-> "xs", attr |-> "append", arg |-> IntV(1)]
    [] OTHER -> [k |-> "var", name |-> e]

\* env.from_string(val): the nodes of the template, or TemplateSyntaxError.
\* `{{ name }}` and `{{ name.append(1) }}` are the expressions and a stray
\* `endif` the only statement in the strings of the model.
RECURSIVE from_string(_)
from_string(cs) ==
  IF cs = << >> THEN [ok |-> TRUE, nodes |-> << >>]
  ELSE IF Head(cs) = "{{"
    THEN IF Len(cs) >= 3 /\ cs[2] \notin Markers /\ cs[3] = "}}"
           THEN LET rest == from_string(SubSeq(cs, 4, Len(cs)))
                IN IF rest.ok
                     THEN [ok |-> TRUE,
                           nodes |-> <<parse_expr(cs[2])>> \o rest.nodes]
                     ELSE rest
           ELSE [ok |-> FALSE,
                 msg |-> "unexpected end of template, expected 'end of print statement'."]
  ELSE IF Head(cs) = "{%"
    THEN [ok |-> FALSE, msg |-> "Encountered unknown tag 'endif'."]
  ELSE LET rest == from_string(Tail(cs))
       IN IF rest.ok
            THEN [ok |-> TRUE,
                  nodes |-> <<[k |-> "text", s |-> Head(cs)]>> \o rest.nodes]
            ELSE rest

\* repr(value) of a scalar or of a list; repr_items joins the items of a
\* list that is not empty
RECURSIVE repr(_), repr_items(_)
repr(v) ==
  CASE v.t = "str" -> "'" \o v.s \o "'"
    [] v.t = "int" -> ToString(v.i)
    [] v.t = "bool" -> IF v.b THEN "True" ELSE "False"
    [] v.t = "null" -> "None"
    [] v.t = "float" -> v.x
    [] v.t = "list" ->
         IF v.l = << >> THEN "[]" ELSE "[" \o repr_items(v.l) \o "]"

repr_items(items) ==
  IF Len(items) = 1 THEN repr(items[1])
  ELSE repr(Head(items)) \o ", " \o repr_items(Tail(items))

\* str(value) of a context value printed by an expression
str(v) == IF v.t = "str" THEN v.s ELSE repr(v)

\* the name Jinja2 gives the type of a value in its messages
object_type_repr(v) ==
  CASE v.t = "null" -> "None"
    [] v.t = "map" -> "dict object"
    [] OTHER -> v.t \o " object"

\* the text s followed by the rest of the output, unless the rest raised
emit(s, rest) ==
  IF IsError(rest.out) THEN rest
  ELSE [out |-> StrV(s \o rest.out.s), context |-> rest.context]

\* Template.render(**context) under StrictUndefined, node after node: the
\* text or the UndefinedError of the first name the context lacks, and the
\* context values as the expressions left them (the keyword arguments share
\* the values of the caller's mapping, and `append` changes a list in place)
RECURSIVE render_nodes(_, _)
render_nodes(nodes, context) ==
  IF nodes = << >> THEN [out |-> StrV(""), context |-> context]
  ELSE LET n == Head(nodes)
       IN IF n.k = "text" THEN emit(n.s, render_nodes(Tail(nodes), context))
          ELSE IF n.name \notin DOMAIN context.m
            THEN [out |-> RenderError("'" \o n.name \o "' is undefined"),
                  context |-> context]
          ELSE IF n.k = "var"
            THEN emit(str(context.m[n.name]), render_nodes(Tail(nodes), context))
          ELSE IF context.m[n.name].t # "list"
            THEN [out |-> RenderError("'" \o object_type_repr(context.m[n.name])
                                        \o "' has no attribute '" \o n.attr \o "'"),
                  context |-> context]
          ELSE emit("None",
                    render_nodes(Tail(nodes),
                                 MapV([context.m EXCEPT
                                         ![n.name] = ListV(Append(@.l, n.arg))])))

\* a failed template rendered as the empty string
render_str_blank(val, context) ==
  LET tpl == from_string(Chunks(val.s))
  IN IF ~tpl.ok \/ context.t # "map"
       THEN [out |-> StrV(""), context |-> context]
     ELSE IF IsError(render_nodes(tpl.nodes, context).out)
       THEN [out |-> StrV(""), context |-> context]
     ELSE render_nodes(tpl.nodes, context)

\* env.from_string(val).render(**context), TemplateError turned to ValueError
render_str(val, context) ==
  LET tpl == from_string(Chunks(val.s))
  IN IF ~tpl.ok THEN [out |-> RenderError(tpl.msg), context |-> context]
     ELSE IF context.t # "map" THEN [out |-> ContextTypeError, context |-> context]
     ELSE render_nodes(tpl.nodes, context)

\* a scalar returned as its string
unchanged_stringly(val) == StrV(str(val))

\* `return val`: a value that is neither a template, a list nor a dict
unchanged(val) == val

\* the order in which the keys of a document are walked: a dict keeps its
\* insertion order, and the documents of the model list their keys in this
\* order
KeyOrder ==
  <<"a", "b", "c", "url", "host", "note", "port", "version", "database">>
keys(f) == SelectSeq(KeyOrder, LAMBDA k : k \in DOMAIN f)

\* _render(val, context): `out` is the rendered value or the error a leaf
\* raised (the exception leaves the comprehension, so nothing after the leaf
\* is rendered and no container is returned), `context` the context values
\* after the call. render_items renders a list, render_keys the values of a
\* dict under the keys ks; their `err` is the error raised, or Null.
RECURSIVE render(_, _), render_items(_, _), render_keys(_, _, _)
render(val, context) ==
  IF has_tpl(val) THEN render_str(val, context)
  ELSE IF val.t = "list"
    THEN LET r == render_items(val.l, context)
         IN [out |-> IF r.err = Null THEN ListV(r.out) ELSE r.err,
             context |-> r.context]
  ELSE IF val.t = "map"
    THEN LET r == render_keys(val.m, keys(val.m), context)
         IN [out |-> IF r.err = Null THEN MapV(r.out) ELSE r.err,
             context |-> r.context]
  ELSE [out |-> unchanged(val), context |-> context]

render_items(items, context) ==
  IF items = << >> THEN [err |-> Null, out |-> << >>, context |-> context]
  ELSE LET first == render(Head(items), context)
       IN IF IsError(first.out)
            THEN [err |-> first.out, out |-> << >>, context |-> first.context]
          ELSE LET rest == render_items(Tail(items), first.context)
               IN [err |-> rest.err, out |-> <<first.out>> \o rest.out,
                   context |-> rest.context]

render_keys(f, ks, context) ==
  IF ks = << >> THEN [err |-> Null, out |-> << >>, context |-> context]
  ELSE LET first == render(f[Head(ks)], context)
       IN IF IsError(first.out)
            THEN [err |-> first.out, out |-> << >>, context |-> first.context]
          ELSE LET rest == render_keys(f, Tail(ks), first.context)
               IN [err |-> rest.err,
                   out |-> DictSet(rest.out, Head(ks), first.out),
                   context |-> rest.context]

\* render_config(data, context)
render_config(d, context) == render(d, context)

(* ---------------- request bodies ---------------- *)

Database(host) == MapV([host |-> StrV(host), port |-> IntV(80)])

\* documents a client may post: without `version`, with `version: null`,
\* with an explicit integer version, failing validation, and not a mapping
Documents ==
  {MapV([database |-> Database("h")]),
   MapV([version |-> Null, database |-> Database("g")])}
    \cup {MapV([version |-> IntV(n), database |-> Database("e")]) :
            n \in ExplicitVersions}
    \cup {MapV([version |-> StrV("x"), database |-> MapV([port |-> IntV(80)])]),
          ListV(<<IntV(1)>>)}

(* ---------------- state ---------------- *)

VARIABLES
  rows,      \* table `configurations`, in insertion order
  pc,        \* where each post_config generator is suspended
  svc,       \* the <service> of the request's path
  data,      \* the request's parsed document
  maxv,      \* post_config's local `maxv`
  version,   \* post_config's local `version`
  inserts,   \* how many times the request has called insert_config
  resp,      \* the response sent for the request
  out,       \* the response of the latest read-side request
  ask,       \* the latest request served outside the post_config processes
  document,  \* the `data` argument of a render_config call
  context,   \* the `context` argument of a render_config call
  rendered,  \* what the render_config call returned or raised
  vdoc,      \* the argument of a validate_config_payload call
  verrors    \* the list the validate_config_payload call returned

\* what the post_config processes and get_config_route leave alone
calls == <<ask, document, context, rendered, vdoc, verrors>>

vars == <<rows, pc, svc, data, maxv, version, inserts, resp, out, calls>>

NoResponse == [status |-> 0]
\* no request has been served outside the post_config processes
NoRequest == [op |-> "none"]
\* a local that no assignment has bound yet
Unset == [t |-> "unset"]

\* no call of a library function has been made
InitCalls ==
  /\ ask = NoRequest
  /\ document = Null
  /\ context = Null
  /\ rendered = Unset
  /\ vdoc = Null
  /\ verrors = Unset

\* the store and the request processes after start-up
InitStore ==
  /\ rows = << >>
  /\ pc = [r \in Requests |-> "idle"]
  /\ svc = [r \in Requests |-> "a"]
  /\ data = [r \in Requests |-> Null]
  /\ maxv = [r \in Requests |-> Unset]
  /\ version = [r \in Requests |-> Unset]
  /\ inserts = [r \in Requests |-> 0]
  /\ resp = [r \in Requests |-> NoResponse]
  /\ out = NoResponse

Init == InitStore /\ InitCalls

(* ---------------- app/api.py: responses ---------------- *)

Saved(service, v) ==
  [status |-> 200, service |-> service, version |-> v, st |-> "saved"]
BadRequest(msg) == [status |-> 400, error |-> msg]
UnprocessableEntity(errors) == [status |-> 422, errors |-> errors]
InternalError == [status |-> 500, error |-> "internal server error"]

\* post_config without the `if errors: raise`
Rejected_never(errors) == FALSE

\* `if errors: raise UnprocessableEntity(errors)`
Rejected(errors) == errors # << >>

\* the increment with its sign flipped
next_version_down(latest) ==
  IF latest = Null THEN IntV(1) ELSE IntV(latest.i - 1)

\* the first version numbered from 0
next_version_zero(latest) ==
  IF latest = Null THEN IntV(0) ELSE IntV(latest.i + 1)

\* version = 1 if maxv is None else maxv + 1
next_version(latest) ==
  IF latest = Null THEN IntV(1) ELSE IntV(latest.i + 1)

\* post_config without `data["version"] = version`
with_version_skip(doc, v) == doc

\* data["version"] = version
with_version(doc, v) == MapV(DictSet(doc.m, "version", v))

\* post_config swallowing the exception of the insert
post_response_swallow(raised, service, v) == Saved(service, v)

\* what post_config answers after `yield insert_config(...)`: the saved body,
\* or through _handle_errors the generic 500 when the insert raised
post_response(raised, service, v) ==
  IF raised THEN InternalError ELSE Saved(service, v)

(* ---------------- app/api.py: post_config ---------------- *)

\* post_config from its entry to its first yield (or to the raised error)
PostReceive(r, service, body) ==
  /\ pc[r] = "idle"
  /\ \A q \in Requests : q < r => pc[q] # "idle"
  /\ svc' = [svc EXCEPT ![r] = service]
  /\ data' = [data EXCEPT ![r] = body]
  /\ IF ~isinstance(body, "dict")
       THEN /\ resp' = [resp EXCEPT ![r] =
                          BadRequest("YAML must represent a mapping (object)")]
            /\ pc' = [pc EXCEPT ![r] = "done"]
            /\ UNCHANGED version
     ELSE IF Rejected(validate_config_payload(body))
       THEN /\ resp' = [resp EXCEPT ![r] =
                          UnprocessableEntity(validate_config_payload(body))]
            /\ pc' = [pc EXCEPT ![r] = "done"]
            /\ UNCHANGED version
     ELSE /\ version' = [version EXCEPT ![r] = DictGet(body.m, "version")]
          /\ pc' = [pc EXCEPT ![r] =
                      IF DictGet(body.m, "version") = Null THEN "read" ELSE "insert"]
          /\ UNCHANGED resp
  /\ UNCHANGED <<rows, maxv, inserts, out, calls>>

\* the result of get_latest_version arrives: lines 143-145, up to the insert
PostRead(r) ==
  /\ pc[r] = "read"
  /\ maxv' = [maxv EXCEPT ![r] = get_latest_version(rows, svc[r])]
  /\ version' = [version EXCEPT ![r] = next_version(maxv'[r])]
  /\ data' = [data EXCEPT ![r] = with_version(data[r], version'[r])]
  /\ pc' = [pc EXCEPT ![r] = "insert"]
  /\ UNCHANGED <<rows, svc, inserts, resp, out, calls>>

\* the insert is accepted by the store and post_config answers
PostInsertOk(r) ==
  /\ pc[r] = "insert"
  /\ isinstance(version[r], "int")
  /\ ~UniqueViolation(rows, svc[r], IntOf(version[r]))
  /\ rows' = insert_config(rows, svc[r], IntOf(version[r]), data[r])
  /\ inserts' = [inserts EXCEPT ![r] = @ + 1]
  /\ resp' = [resp EXCEPT ![r] = post_response(FALSE, svc[r], IntOf(version[r]))]
  /\ pc' = [pc EXCEPT ![r] = "done"]
  /\ UNCHANGED <<svc, data, maxv, version, out, calls>>

\* the store rejects the insert; the exception reaches _handle_errors
PostInsertConflict(r) ==
  /\ pc[r] = "insert"
  /\ isinstance(version[r], "int")
  /\ UniqueViolation(rows, svc[r], IntOf(version[r]))
  /\ rows' = insert_config(rows, svc[r], IntOf(version[r]), data[r])
  /\ inserts' = [inserts EXCEPT ![r] = @ + 1]
  /\ resp' = [resp EXCEPT ![r] = post_response(TRUE, svc[r], IntOf(version[r]))]
  /\ pc' = [pc EXCEPT ![r] = "done"]
  /\ UNCHANGED <<svc, data, maxv, version, out, calls>>

(* ---------------- app/api.py: get_config_route ---------------- *)

\* the query strings a client may send as ?version=
VersionArgs == {StrV("1"), StrV("2"), StrV("x")}

\* int(args[b"version"][0].decode()); Null stands for ValueError
int(s) ==
  CASE s = "0" -> IntV(0)
    [] s = "1" -> IntV(1)
    [] s = "2" -> IntV(2)
    [] s = "3" -> IntV(3)
    [] OTHER -> Null

NotFound == [status |-> 404, error |-> "service not found"]
Ok(body) == [status |-> 200, body |-> body]

\* GET /config/<service>[?version=N], template parameter absent or not 1
get_config_response(table, service, arg) ==
  IF arg # Null /\ int(arg.s) = Null
    THEN BadRequest("version must be integer")
  ELSE LET row == get_config(table, service,
                             IF arg = Null THEN Null ELSE int(arg.s))
       IN IF row = Null THEN NotFound ELSE Ok(row.payload)

GetConfigRoute(service, arg) ==
  /\ out' = get_config_response(rows, service, arg)
  /\ rows' = select(rows)
  /\ UNCHANGED <<pc, svc, data, maxv, version, inserts, resp, calls>>

Receive == \E r \in Requests, s \in Services, body \in Documents :
             PostReceive(r, s, body)
Read == \E r \in Requests : PostRead(r)
InsertOk == \E r \in Requests : PostInsertOk(r)
InsertConflict == \E r \in Requests : PostInsertConflict(r)

GetConfig == \E s \in Services, arg \in {Null} \cup VersionArgs :
               GetConfigRoute(s, arg)

Next == Receive \/ Read \/ InsertOk \/ InsertConflict \/ GetConfig

Spec == Init /\ [][Next]_vars

(* ---------------- requests that follow one another ---------------- *)

\* post_config has returned its response (or _handle_errors has): the locals
\* of the call are gone and the connection serves its next request
PostForget(r) ==
  /\ pc[r] = "done"
  /\ pc' = [pc EXCEPT ![r] = "idle"]
  /\ svc' = [svc EXCEPT ![r] = "a"]
  /\ data' = [data EXCEPT ![r] = Null]
  /\ maxv' = [maxv EXCEPT ![r] = Unset]
  /\ version' = [version EXCEPT ![r] = Unset]
  /\ inserts' = [inserts EXCEPT ![r] = 0]
  /\ resp' = [resp EXCEPT ![r] = NoResponse]
  /\ UNCHANGED <<rows, out, calls>>

Forget == \E r \in Requests : PostForget(r)

\* the answer of a read has been handed to its client
Answered ==
  /\ ask # NoRequest
  /\ ask' = NoRequest
  /\ out' = NoResponse
  /\ UNCHANGED <<rows, pc, svc, data, maxv, version, inserts, resp>>
  /\ UNCHANGED <<document, context, rendered, vdoc, verrors>>

\* a step of a submission; it is looked at once the answer of the read
\* before it has been handed over (a read changes nothing it could miss)
SubmissionStep == Read \/ InsertOk \/ InsertConflict \/ Forget

\* the connections that submit while reads are served: two submissions can
\* be in flight at once
Writers == {1, 2}

\* the submissions in flight: past validation, their insert not yet answered
InFlight == {r \in Requests : pc[r] \in {"read", "insert"}}

(* ---------------- app/api.py: get_history_route ---------------- *)

\* items = yield get_history(service, limit=50)
HistoryLimit == 50

\* body = [{"version": v, "created_at": ts} for v, ts in items]
history_body(items) ==
  [k \in DOMAIN items |-> [version |-> items[k][1], created_at |-> items[k][2]]]

GetHistoryRoute(service) ==
  /\ out' = Ok(history_body(get_history(rows, service, HistoryLimit)))
  /\ ask' = [op |-> "GET history", service |-> service]
  /\ rows' = select(rows)
  /\ UNCHANGED <<pc, svc, data, maxv, version, inserts, resp>>
  /\ UNCHANGED <<document, context, rendered, vdoc, verrors>>

\* a call of db.get_history(service, limit)
GetHistoryCall(service, limit) ==
  /\ out' = [result |-> get_history(rows, service, limit)]
  /\ ask' = [op |-> "get_history", service |-> service, limit |-> limit]
  /\ rows' = select(rows)
  /\ UNCHANGED <<pc, svc, data, maxv, version, inserts, resp>>
  /\ UNCHANGED <<document, context, rendered, vdoc, verrors>>

\* the documents posted before history is read: without `version` and with
\* an explicit version
HistoryDocuments ==
  {MapV([database |-> Database("h")])}
    \cup {MapV([version |-> IntV(0), database |-> Database("e")])}

HistoryPost == \E r \in Writers, s \in Services, body \in HistoryDocuments :
                 /\ ask = NoRequest
                 /\ Len(rows) + Cardinality(InFlight) < MaxRows
                 /\ PostReceive(r, s, body)
HistoryRoute == \E s \in Services : ask = NoRequest /\ GetHistoryRoute(s)
HistoryCall == \E s \in Services, limit \in 0..MaxLimit :
                 ask = NoRequest /\ GetHistoryCall(s, limit)

NextHistory ==
  \/ HistoryPost
  \/ (ask = NoRequest /\ SubmissionStep)
  \/ HistoryRoute \/ HistoryCall \/ Answered

SpecHistory == Init /\ [][NextHistory]_vars

(* ---------------- app/api.py: reads with a template context ---------------- *)

\* the raw request bodies sent as template context; "" is the empty body
ContextBodies == {"", "{\"host\":\"x\",\"port\":1}", "[1]", "null", "{"}

\* json.loads(raw) for the bodies above; JSONDecodeError as an error record
json_loads(raw) ==
  CASE raw = "{\"host\":\"x\",\"port\":1}" ->
         MapV([host |-> StrV("x"), port |-> IntV(1)])
    [] raw = "[1]" -> ListV(<<IntV(1)>>)
    [] raw = "null" -> Null
    [] raw = "{" ->
         [t |-> "error", kind |-> "JSONDecodeError",
          msg |-> "Expecting property name enclosed in double quotes: line 1 column 2 (char 1)"]

\* from reading the body to the response: the context is the parsed body or
\* {} for an empty one; ValueError becomes 422, any other exception 500
render_response(payload, raw) ==
  IF raw # "" /\ IsError(json_loads(raw))
    THEN BadRequest("Invalid JSON body for template context: "
                      \o json_loads(raw).msg)
  ELSE LET ctx == IF raw = "" THEN MapV(<< >>) ELSE json_loads(raw)
           res == render_config(payload, ctx).out
       IN IF ~IsError(res) THEN Ok(res)
          ELSE IF res.kind = "ValueError" THEN UnprocessableEntity(<<res.msg>>)
          ELSE InternalError

\* GET /config/<service>[?version=N][&template=T] with body raw
get_config_route(table, service, arg, template, raw) ==
  IF arg # Null /\ int(arg.s) = Null
    THEN BadRequest("version must be integer")
  ELSE LET row == get_config(table, service,
                             IF arg = Null THEN Null ELSE int(arg.s))
       IN IF row = Null THEN NotFound
          ELSE IF template = "1" THEN render_response(row.payload, raw)
          ELSE Ok(row.payload)

\* POST /config/<service>/render[?version=N] with body raw
render_config_route(table, service, arg, raw) ==
  IF arg # Null /\ int(arg.s) = Null
    THEN BadRequest("version must be integer")
  ELSE LET row == get_config(table, service,
                             IF arg = Null THEN Null ELSE int(arg.s))
       IN IF row = Null THEN NotFound
          ELSE render_response(row.payload, raw)

\* the values of ?template= a client may send; "" is the parameter left out
TemplateArgs == {"", "0", "1"}

\* the rows a read is served from
MaxStored == 2

\* the documents stored before reads: plain, with expressions the context
\* can resolve, and with an explicit version and an expression it cannot
ReadDocuments ==
  {MapV([database |-> Database("h")]),
   MapV([database |-> Database("{{host}}"),
         url |-> StrV("http://{{host}}:{{port}}")]),
   MapV([version |-> IntV(1), database |-> Database("e"),
         note |-> ListV(<<StrV("{{missing}}"), Null>>)])}

GetConfigTemplateRoute(service, arg, template, raw) ==
  /\ out' = get_config_route(rows, service, arg, template, raw)
  /\ ask' = [op |-> "GET config", service |-> service, version |-> arg,
             template |-> template, body |-> raw]
  /\ rows' = select(rows)
  /\ UNCHANGED <<pc, svc, data, maxv, version, inserts, resp>>
  /\ UNCHANGED <<document, context, rendered, vdoc, verrors>>

PostRenderRoute(service, arg, raw) ==
  /\ out' = render_config_route(rows, service, arg, raw)
  /\ ask' = [op |-> "POST render", service |-> service, version |-> arg,
             body |-> raw]
  /\ rows' = select(rows)
  /\ UNCHANGED <<pc, svc, data, maxv, version, inserts, resp>>
  /\ UNCHANGED <<document, context, rendered, vdoc, verrors>>

ReadPost == \E r \in Writers, s \in Services, body \in ReadDocuments :
              /\ ask = NoRequest
              /\ Len(rows) + Cardinality(InFlight) < MaxStored
              /\ PostReceive(r, s, body)
ReadConfig == \E s \in Services, arg \in {Null} \cup VersionArgs,
                 template \in TemplateArgs, raw \in ContextBodies :
                /\ ask = NoRequest
                /\ template # "1" => raw = ""
                /\ GetConfigTemplateRoute(s, arg, template, raw)
ReadRender == \E s \in Services, arg \in {Null} \cup VersionArgs,
                 raw \in ContextBodies :
                ask = NoRequest /\ PostRenderRoute(s, arg, raw)
ReadHistory == \E s \in Services : ask = NoRequest /\ GetHistoryRoute(s)

NextRead ==
  \/ ReadPost
  \/ (ask = NoRequest /\ SubmissionStep)
  \/ ReadConfig \/ ReadRender \/ ReadHistory \/ Answered

SpecRead == Init /\ [][NextRead]_vars

(* ---------------- calls of render_config ---------------- *)

\* the leaves of the documents rendered: scalars, plain strings, strings with
\* expressions that resolve or not, and strings with broken syntax
Leaves ==
  {IntV(1), FloatV("1.5"), BoolV(TRUE), Null, StrV("h"), StrV("a}}"),
   StrV("{{host}}"), StrV("http://{{host}}:{{port}}"), StrV("{{missing}}"),
   StrV("{{host"), StrV("{% endif %}"), StrV("{{xs}}"),
   StrV("{{xs.append(1)}}")}

RenderDocuments ==
  {MapV([a |-> x, b |-> ListV(<<y, MapV([c |-> z])>>)]) :
     x \in Leaves, y \in Leaves, z \in Leaves}
    \cup {MapV([a |-> IntV(1), b |-> ListV(<<BoolV(TRUE), Null>>)]),
          MapV([url |-> StrV("http://{{host}}:{{port}}")]),
          MapV([url |-> StrV("{{missing}}")]),
          MapV([a |-> ListV(<< >>), b |-> MapV(<< >>)])}

\* the contexts: empty, complete, lacking `port`, with a list, and not a
\* mapping
RenderContexts ==
  {MapV(<< >>),
   MapV([host |-> StrV("x"), port |-> IntV(1)]),
   MapV([host |-> StrV("x")]),
   MapV([host |-> StrV("x"), xs |-> ListV(<< >>)]),
   ListV(<<IntV(1)>>)}

InitRender ==
  /\ InitStore
  /\ ask = NoRequest
  /\ document \in RenderDocuments
  /\ context \in RenderContexts
  /\ rendered = Unset
  /\ vdoc = Null
  /\ verrors = Unset

RenderCall ==
  /\ rendered = Unset
  /\ rendered' = render_config(document, context).out
  /\ context' = render_config(document, context).context
  /\ UNCHANGED <<rows, pc, svc, data, maxv, version, inserts, resp, out>>
  /\ UNCHANGED <<ask, document, vdoc, verrors>>

NextRender == RenderCall

SpecRender == InitRender /\ [][NextRender]_vars

(* ---------------- calls of validate_config_payload ---------------- *)

\* a key left out of a mapping
Absent == [t |-> "absent"]

\* the mapping f with key set to v, or f itself when the key is left out
WithKey(f, key, v) == IF v = Absent THEN f ELSE DictSet(f, key, v)

VersionValues ==
  {Absent, Null, IntV(1), IntV(0), StrV("x"), BoolV(TRUE), FloatV("1.5")}
HostValues ==
  {Absent, Null, StrV("h"), StrV(""), StrV(" "), IntV(5), BoolV(FALSE)}
PortValues ==
  {Absent, Null, IntV(80), IntV(1), IntV(0), IntV(-1), IntV(65535),
   IntV(65536), IntV(99999), StrV("80"), FloatV("80.0"), BoolV(TRUE),
   BoolV(FALSE)}
DatabaseValues ==
  {Absent, Null, StrV("db"), ListV(<<IntV(1)>>)}
    \cup {MapV(WithKey(WithKey(<< >>, "host", h), "port", p)) :
            h \in HostValues, p \in PortValues}

ValidateDocuments ==
  {MapV(WithKey(WithKey(<< >>, "version", v), "database", db)) :
     v \in VersionValues, db \in DatabaseValues}

InitValidate ==
  /\ InitStore
  /\ ask = NoRequest
  /\ document = Null
  /\ context = Null
  /\ rendered = Unset
  /\ vdoc \in ValidateDocuments
  /\ verrors = Unset

ValidateCall ==
  /\ verrors = Unset
  /\ verrors' = [result |-> validate_config_payload(vdoc)]
  /\ UNCHANGED <<rows, pc, svc, data, maxv, version, inserts, resp, out>>
  /\ UNCHANGED <<ask, document, context, rendered, vdoc>>

NextValidate == ValidateCall

SpecValidate == InitValidate /\ [][NextValidate]_vars

(* ---------------- properties ---------------- *)

\* the request omitted `version`: it takes, or took, the get_latest_version path
AutoAssigned(r) == pc[r] = "read" \/ maxv[r] # Unset

\* the request's insert was rejected by the store
InsertRejected(r) == pc[r] = "done" /\ inserts[r] > 0 /\ resp[r].status # 200

\* C1: two submissions to the same service that both omitted `version` never
\* both answer "saved" with the same assigned version.
C1_NoSharedAssignedVersion ==
  \A r1, r2 \in Requests :
    (/\ r1 # r2
     /\ AutoAssigned(r1) /\ AutoAssigned(r2)
     /\ svc[r1] = svc[r2]
     /\ resp[r1].status = 200 /\ resp[r2].status = 200)
      => resp[r1].version # resp[r2].version

\* two version-less submissions read the same max, one is saved, one fails
C1_RaceLoserFails ==
  \E r1, r2 \in Requests :
    /\ r1 # r2
    /\ svc[r1] = svc[r2]
    /\ maxv[r1] # Unset /\ maxv[r1] = maxv[r2]
    /\ resp[r1].status = 200
    /\ resp[r2] = InternalError

\* C2 (as claimed): when all N submissions omitted `version`, went to the same
\* service, which started empty, and have finished, all N are saved, under N
\* pairwise different versions.
C2_AllSavedDistinct ==
  \A s \in Services :
    (\A r \in Requests : pc[r] = "done" /\ AutoAssigned(r) /\ svc[r] = s)
      => /\ \A r \in Requests : resp[r].status = 200
         /\ Cardinality({rows[j].version : j \in ServiceRows(rows, s)})
              = MaxRequests

\* C3 (as claimed): a rejected insert of an auto-assigned version was retried
\* (a second insert_config call was made) before the conflict is surfaced; a
\* rejected insert of a caller-specified version is surfaced after one call.
C3_RetryOrSurface ==
  \A r \in Requests :
    InsertRejected(r) =>
      IF AutoAssigned(r) THEN inserts[r] >= 2 ELSE inserts[r] = 1

\* C4: no two rows share (service, version), and an insert for a pair that
\* already exists leaves the table as it was and answers an error.
C4_UniqueServiceVersion ==
  [][/\ \A i, j \in DOMAIN rows' :
          i # j => <<rows'[i].service, rows'[i].version>>
                     # <<rows'[j].service, rows'[j].version>>
     /\ \A r \in Requests :
          (/\ pc[r] = "insert" /\ pc'[r] = "done"
           /\ \E j \in DOMAIN rows :
                rows[j].service = svc[r] /\ rows[j].version = version[r].i)
            => rows' = rows /\ resp'[r].status = 500]_vars

\* a submission with an explicit version has collided with an existing row
C4_ExplicitConflictRejected ==
  \E r \in Requests :
    /\ InsertRejected(r)
    /\ ~AutoAssigned(r)
    /\ \E j \in DOMAIN rows :
         rows[j].service = svc[r] /\ rows[j].version = version[r].i

\* rows of the service are in strictly increasing version order, in the order
\* they were saved
Increasing(s) ==
  \A i, j \in ServiceRows(rows, s) :
    i < j => rows[i].version < rows[j].version

\* C5 (as claimed): within one service, a row saved after another row has a
\* strictly greater version, explicit versions included.
C5_StrictlyIncreasing == \A s \in Services : Increasing(s)

\* C5 (amended): within a service all of whose saved submissions omitted
\* `version`, a row saved after another row has a strictly greater version.
C5_AutoOnlyIncreasing ==
  \A s \in Services :
    (\A r \in Requests :
       (svc[r] = s /\ resp[r].status = 200) => AutoAssigned(r))
      => Increasing(s)

\* two version-less submissions to one service are both saved
C5_TwoAutoSaved ==
  \E s \in Services :
    /\ Cardinality(ServiceRows(rows, s)) >= 2
    /\ \A r \in Requests :
         (svc[r] = s /\ resp[r].status = 200) => AutoAssigned(r)

\* C6: no step removes or changes a persisted row, and a read of an existing
\* (service, version) returns the same row after every step.
C6_AppendOnly ==
  [][/\ Len(rows') >= Len(rows)
     /\ \A j \in DOMAIN rows : rows'[j] = rows[j]
     /\ \A j \in DOMAIN rows :
          /\ get_config(rows, rows[j].service, IntV(rows[j].version)) # Null
          /\ get_config(rows', rows[j].service, IntV(rows[j].version))
               = get_config(rows, rows[j].service, IntV(rows[j].version))]_vars

\* a colliding insert carrying a different document was rejected, and the row
\* is read back with the payload it was saved with
C6_CollisionKeptPayload ==
  \E r \in Requests :
    /\ InsertRejected(r)
    /\ \E j \in DOMAIN rows :
         /\ rows[j].service = svc[r] /\ rows[j].version = version[r].i
         /\ rows[j].payload # json_dumps(data[r])
         /\ get_config(rows, svc[r], version[r]).payload = rows[j].payload

\* the versions persisted for a service
Versions(table, s) == {table[j].version : j \in ServiceRows(table, s)}

\* the request omitted `version` and the maximum it read is still the maximum
\* of its service
Undisturbed(r) ==
  /\ AutoAssigned(r)
  /\ IF maxv[r] = Null
       THEN Versions(rows, svc[r]) = {}
       ELSE /\ maxv[r].i \in Versions(rows, svc[r])
            /\ \A w \in Versions(rows, svc[r]) : w <= maxv[r].i

\* C7: a submission that omitted `version` is assigned 1 when its service has
\* no rows and max(version)+1 otherwise, and when no row of the service was
\* saved between its read and its insert it is saved under that version.
C7_AssignsMaxPlusOne ==
  [][\A r \in Requests :
       /\ (pc[r] = "read" /\ pc'[r] = "insert")
            => /\ version'[r].t = "int"
               /\ IF Versions(rows, svc[r]) = {}
                    THEN version'[r].i = 1
                    ELSE /\ version'[r].i - 1 \in Versions(rows, svc[r])
                         /\ \A w \in Versions(rows, svc[r]) : w < version'[r].i
       /\ (pc[r] = "insert" /\ pc'[r] = "done" /\ Undisturbed(r))
            => /\ resp'[r] = Saved(svc[r], version[r].i)
               /\ Versions(rows', svc[r])
                    = Versions(rows, svc[r]) \cup {version[r].i}]_vars

\* two sequential version-less submissions to an empty service: 1 then 2
C7_OneThenTwo ==
  \E s \in Services, r1, r2 \in Requests :
    /\ svc[r1] = s /\ svc[r2] = s
    /\ maxv[r1] = Null /\ maxv[r2] = IntV(1)
    /\ resp[r1] = Saved(s, 1) /\ resp[r2] = Saved(s, 2)
    /\ Len(rows) = 2
    /\ rows[1].version = 1 /\ rows[2].version = 2

\* C8 (as claimed): every persisted row has a version >= 1.
C8_PositiveVersions == \A j \in DOMAIN rows : rows[j].version >= 1

\* C9: a submission whose document makes the validator return messages is
\* answered with that list at once, leaves the table unchanged, and never
\* reaches the store afterwards.
C9_InvalidNotPersisted ==
  [][\A r \in Requests :
       /\ (/\ pc[r] = "idle" /\ pc'[r] # "idle"
           /\ data'[r].t = "map"
           /\ validate_config_payload(data'[r]) # << >>)
            => /\ rows' = rows
               /\ pc'[r] = "done"
               /\ resp'[r] =
                    UnprocessableEntity(validate_config_payload(data'[r]))
       /\ resp[r].status = 422
            => /\ pc'[r] = "done" /\ resp'[r] = resp[r]
               /\ inserts'[r] = 0 /\ maxv'[r] = Unset]_vars

\* a submission was rejected with the validator's two messages
C9_RejectedWithList ==
  \E r \in Requests :
    /\ pc[r] = "done"
    /\ resp[r].status = 422
    /\ Len(resp[r].errors) = 2
    /\ inserts[r] = 0

\* C10: a request that answered "saved" with version v has a row (service, v)
\* holding its document, at every later time; an insert that added no row is
\* not answered "saved".
C10_SavedMeansPersisted ==
  [][/\ \A r \in Requests :
          resp'[r].status = 200
            => \E j \in DOMAIN rows' :
                 /\ rows'[j].service = svc'[r]
                 /\ rows'[j].version = resp'[r].version
                 /\ rows'[j].payload = json_dumps(data'[r])
     /\ \A r \in Requests :
          (pc[r] = "insert" /\ pc'[r] = "done" /\ rows' = rows)
            => resp'[r].status # 200]_vars

\* a saved auto-assigned submission whose row holds the document with the
\* assigned version, after a later submission has been saved as well
C10_SavedRowKept ==
  \E r \in Requests :
    /\ AutoAssigned(r)
    /\ resp[r].status = 200
    /\ Len(rows) >= 2
    /\ rows[1].service = svc[r]
    /\ rows[1].version = resp[r].version
    /\ rows[1].payload = json_dumps(data[r])

\* the row of the service that a history entry <<version, created_at>> shows
EntryRow(table, s, e) ==
  CHOOSE j \in ServiceRows(table, s) : table[j].version = e[1]

\* C11: get_history(service, limit) returns at most `limit` entries, each a
\* row of that service with its timestamp, the most recently created first
\* and none older than a row left out; with versions 1..5 inserted in that
\* order, limit=3 gives 5,4,3.
C11_HistoryRecentFirst ==
  [][(ask'.op = "get_history" /\ <<ask', out'>> # <<ask, out>>) =>
       LET s == ask'.service
           h == out'.result
           js == ServiceRows(rows, s)
           shown == {EntryRow(rows, s, h[k]) : k \in DOMAIN h}
       IN /\ Len(h) = IF Cardinality(js) < ask'.limit
                        THEN Cardinality(js) ELSE ask'.limit
          /\ \A k \in DOMAIN h :
               /\ \E j \in js : rows[j].version = h[k][1]
               /\ h[k][2] = to_char(rows[EntryRow(rows, s, h[k])].created_at)
          /\ \A k1, k2 \in DOMAIN h :
               k1 < k2 => rows[EntryRow(rows, s, h[k1])].created_at
                            > rows[EntryRow(rows, s, h[k2])].created_at
          /\ \A j \in js \ shown, o \in shown :
               rows[j].created_at < rows[o].created_at
          /\ (/\ ask'.limit = 3
              /\ Cardinality(js) = 5
              /\ \A j1, j2 \in js :
                   j1 < j2 => rows[j1].version < rows[j2].version
              /\ {rows[j].version : j \in js} = 1..5)
               => <<h[1][1], h[2][1], h[3][1]>> = <<5, 4, 3>>]_vars

\* versions 1..5 were inserted in that order and history with limit 3 was read
C11_FiveRowsLimitThree ==
  /\ ask = [op |-> "get_history", service |-> "a", limit |-> 3]
  /\ Len(rows) = 5
  /\ \A j \in 1..5 : rows[j].service = "a" /\ rows[j].version = j
  /\ Len(out.result) = 3
  /\ <<out.result[1][1], out.result[2][1], out.result[3][1]>> = <<5, 4, 3>>

\* the string has an expression whose variable the context lacks
Unresolved(leaf, ctx) ==
  LET cs == Chunks(leaf.s)
  IN \E k \in 2..Len(cs) :
       /\ cs[k - 1] = "{{"
       /\ cs[k] \notin Markers
       /\ parse_expr(cs[k]).name \notin DOMAIN ctx.m

\* the string opens an expression it does not close, or a statement that
\* does not exist
Malformed(leaf) ==
  LET cs == Chunks(leaf.s)
  IN \/ \E k \in DOMAIN cs : cs[k] = "{%"
     \/ \E k \in DOMAIN cs :
          cs[k] = "{{" /\ ~(k + 2 <= Len(cs) /\ cs[k + 2] = "}}")

\* some string leaf of the tree cannot be rendered under the context
RECURSIVE SomeLeafFails(_, _)
SomeLeafFails(val, ctx) ==
  CASE val.t = "str" -> Malformed(val) \/ Unresolved(val, ctx)
    [] val.t = "list" -> \E j \in DOMAIN val.l : SomeLeafFails(val.l[j], ctx)
    [] val.t = "map" -> \E k \in DOMAIN val.m : SomeLeafFails(val.m[k], ctx)
    [] OTHER -> FALSE

\* C15: when some string leaf of the document references a variable the
\* context lacks or has a syntax error, render_config raises one ValueError
\* and returns no tree, however many other leaves render.
C15_RenderAllOrNothing ==
  (/\ rendered # Unset
   /\ context.t = "map"
   /\ SomeLeafFails(document, context))
    => /\ IsError(rendered)
       /\ rendered.kind = "ValueError"

\* one leaf renders under the context, a later one is unresolved, and the
\* call raised
C15_OneLeafOkOneFails ==
  /\ document = MapV([a |-> StrV("{{host}}"),
                      b |-> ListV(<<StrV("{{host}}"),
                                    MapV([c |-> StrV("{{missing}}")])>>)])
  /\ context = MapV([host |-> StrV("x"), port |-> IntV(1)])
  /\ rendered = RenderError("'missing' is undefined")

\* the result has the structure of the document: the same keys, the same
\* lengths and order, equal scalars and equal strings without expressions
RECURSIVE SameShape(_, _)
SameShape(val, res) ==
  CASE val.t = "map" ->
         /\ res.t = "map"
         /\ DOMAIN res.m = DOMAIN val.m
         /\ \A k \in DOMAIN val.m : SameShape(val.m[k], res.m[k])
    [] val.t = "list" ->
         /\ res.t = "list"
         /\ Len(res.l) = Len(val.l)
         /\ \A j \in DOMAIN val.l : SameShape(val.l[j], res.l[j])
    [] val.t = "str" ->
         IF \E k \in DOMAIN Chunks(val.s) : Chunks(val.s)[k] \in {"{{", "{%"}
           THEN res.t = "str"
           ELSE res = val
    [] OTHER -> res = val

RECURSIVE NoExpressions(_)
NoExpressions(val) ==
  CASE val.t = "map" -> \A k \in DOMAIN val.m : NoExpressions(val.m[k])
    [] val.t = "list" -> \A j \in DOMAIN val.l : NoExpressions(val.l[j])
    [] val.t = "str" ->
         \A k \in DOMAIN Chunks(val.s) : Chunks(val.s)[k] \notin {"{{", "{%"}
    [] OTHER -> TRUE

\* C16: a successful render keeps key sets, sequence lengths and order,
\* non-string scalars and strings without expressions; a document without
\* expressions renders to itself under any context.
C16_RenderKeepsStructure ==
  rendered # Unset =>
    /\ ~IsError(rendered) => SameShape(document, rendered)
    /\ NoExpressions(document) => rendered = document

\* a nested document with scalars and a resolved expression was rendered
C16_NestedRendered ==
  /\ document = MapV([a |-> FloatV("1.5"),
                      b |-> ListV(<<Null,
                                    MapV([c |-> StrV("http://{{host}}:{{port}}")])>>)])
  /\ rendered = MapV([a |-> FloatV("1.5"),
                      b |-> ListV(<<Null, MapV([c |-> StrV("http://x:1")])>>)])

\* the pass-through example of the spec under a context that is not empty
C16_PassThrough ==
  /\ document = MapV([a |-> IntV(1), b |-> ListV(<<BoolV(TRUE), Null>>)])
  /\ context = MapV([host |-> StrV("x"), port |-> IntV(1)])
  /\ rendered = document

\* the rows of one service, in insertion order
OnlyService(table, s) == SelectSeq(table, LAMBDA row : row.service = s)

\* C14: a step of a submission to service A leaves the rows, the maximum
\* version, the latest read and the history of every other service as they
\* were, and the version it assigns is the one computed from the rows of A
\* alone.
C14_ServicesIndependent ==
  [][\A r \in Requests :
       pc'[r] # pc[r] =>
         /\ \A b \in Services \ {svc'[r]} :
              /\ OnlyService(rows', b) = OnlyService(rows, b)
              /\ get_latest_version(rows', b) = get_latest_version(rows, b)
              /\ get_config(rows', b, Null) = get_config(rows, b, Null)
              /\ get_history(rows', b, HistoryLimit)
                   = get_history(rows, b, HistoryLimit)
         /\ pc[r] = "read" =>
              LET own == OnlyService(rows, svc[r])
                  vs == {own[j].version : j \in DOMAIN own}
              IN version'[r] =
                   IF vs = {} THEN IntV(1)
                   ELSE IntV(1 + CHOOSE v \in vs : \A w \in vs : w <= v)]_vars

\* service a holds version 1; a submission to service b without a version
\* was assigned 1 and saved
C14_OtherServiceStartsAtOne ==
  /\ Len(rows) = 2
  /\ rows[1].service = "a" /\ rows[1].version = 1
  /\ rows[2].service = "b" /\ rows[2].version = 1
  /\ \E r \in Requests :
       AutoAssigned(r) /\ svc[r] = "b" /\ resp[r] = Saved("b", 1)

\* C20: the `version` inside every stored payload is the row's version
\* column, and a document on its way to the insert carries the version it
\* will be stored under, assigned or supplied.
C20_PayloadVersionIsColumn ==
  /\ \A j \in DOMAIN rows :
       DictGet(rows[j].payload.m, "version") = IntV(rows[j].version)
  /\ \A r \in Requests :
       pc[r] = "insert" => DictGet(data[r].m, "version") = version[r]

\* a submission without a version and one with version 1 are both stored
C20_AssignedAndSuppliedStored ==
  /\ \E r \in Requests :
       /\ AutoAssigned(r)
       /\ resp[r].status = 200
       /\ \E j \in DOMAIN rows :
            /\ rows[j].service = svc[r]
            /\ rows[j].payload = json_dumps(data[r])
            /\ IntV(rows[j].version) = version[r]
  /\ \E r \in Requests :
       /\ ~AutoAssigned(r)
       /\ resp[r].status = 200
       /\ \E j \in DOMAIN rows :
            /\ rows[j].service = svc[r]
            /\ rows[j].payload = json_dumps(data[r])
            /\ IntV(rows[j].version) = version[r]

\* the messages of a returned list
Messages == {verrors.result[j] : j \in DOMAIN verrors.result}

\* the key `field` of the `database` mapping cannot be reached: `database`
\* is missing or not a mapping, or the mapping has no such key
Unreachable(field) ==
  \/ "database" \notin DOMAIN vdoc.m
  \/ vdoc.m["database"].t # "map"
  \/ field \notin DOMAIN vdoc.m["database"].m

\* C18: every required path that cannot be reached gets its own
\* `Missing required field` message whatever the other fields are, and a
\* document without `version` gets no message about version; the empty
\* document gets exactly the two missing-field messages.
C18_AllViolationsReported ==
  verrors # Unset =>
    /\ Unreachable("host") => "Missing required field: database.host" \in Messages
    /\ Unreachable("port") => "Missing required field: database.port" \in Messages
    /\ "version" \notin DOMAIN vdoc.m =>
         /\ "Missing required field: version" \notin Messages
         /\ "Invalid type for version: expected int" \notin Messages
    /\ vdoc = MapV(<< >>) =>
         verrors.result = <<"Missing required field: database.host",
                           "Missing required field: database.port">>

\* validate({}) has returned both missing-field messages
C18_EmptyDocument ==
  /\ vdoc = MapV(<< >>)
  /\ verrors # Unset
  /\ verrors.result = <<"Missing required field: database.host",
                       "Missing required field: database.port">>

\* a wrong version, a missing host and an out-of-range port are reported
\* together
C18_ThreeTogether ==
  /\ vdoc = MapV([version |-> StrV("x"), database |-> MapV([port |-> IntV(99999)])])
  /\ verrors # Unset
  /\ verrors.result = <<"Invalid type for version: expected int",
                       "Missing required field: database.host",
                       "Invalid database.port: must be 1..65535">>

\* the document is valid in the words of the specification: host a string
\* that is not blank, port an integer in 1..65535, version absent or an
\* integer (a boolean is not an integer)
ValidDocument ==
  /\ ~Unreachable("host")
  /\ vdoc.m["database"].m["host"].t = "str"
  /\ vdoc.m["database"].m["host"].s \notin BlankStrings
  /\ ~Unreachable("port")
  /\ vdoc.m["database"].m["port"].t = "int"
  /\ vdoc.m["database"].m["port"].i \in 1..65535
  /\ \/ DictGet(vdoc.m, "version") = Null
     \/ DictGet(vdoc.m, "version").t = "int"

\* C19: validate returns the empty list exactly when host is a non-blank
\* string, port an integer in 1..65535 and version absent or an integer; a
\* port or version of another type is answered with the type message, an
\* integer port out of range with the range message, a blank host with the
\* non-empty message.
C19_EmptyExactlyWhenValid ==
  verrors # Unset =>
    /\ verrors.result = << >> <=> ValidDocument
    /\ (~Unreachable("port") /\ vdoc.m["database"].m["port"].t \notin {"int", "null"})
         => "Invalid type for database.port: expected int" \in Messages
    /\ DictGet(vdoc.m, "version").t \notin {"int", "null"}
         => "Invalid type for version: expected int" \in Messages
    /\ (~Unreachable("host") /\ vdoc.m["database"].m["host"].t \notin {"str", "null"})
         => "Invalid type for database.host: expected str" \in Messages
    /\ (~Unreachable("port") /\ vdoc.m["database"].m["port"].t = "int"
          /\ vdoc.m["database"].m["port"].i \notin 1..65535)
         => "Invalid database.port: must be 1..65535" \in Messages
    /\ (~Unreachable("host") /\ vdoc.m["database"].m["host"].t = "str"
          /\ vdoc.m["database"].m["host"].s \in BlankStrings)
         => "Invalid database.host: must be non-empty string" \in Messages

\* a document whose port is the boolean true was validated without a message
C19_BooleanPortAccepted ==
  /\ vdoc = MapV([database |-> MapV([host |-> StrV("h"), port |-> BoolV(TRUE)])])
  /\ verrors # Unset
  /\ verrors.result = << >>

\* the step serves a read request
ReadStep ==
  /\ ask'.op \in {"GET config", "POST render", "GET history"}
  /\ <<ask', out'>> # <<ask, out>>

\* the rows of the service with the version the request names, or with the
\* highest version of the service when it names none
Matching(table, service, arg) ==
  IF arg = Null
    THEN {j \in DOMAIN table :
            /\ table[j].service = service
            /\ \A k \in DOMAIN table :
                 table[k].service = service => table[k].version <= table[j].version}
    ELSE {j \in DOMAIN table :
            table[j].service = service /\ IntV(table[j].version) = int(arg.s)}

\* C12: a read that names a version is answered with the payload of the one
\* stored row of that service and version, a read that names none with the
\* row of the service's highest version, and with NotFound exactly when no
\* such row is stored; with template=1 or through POST render the NotFound
\* cases are the same.
C12_ReadReturnsTheRow ==
  [][(/\ ReadStep
      /\ ask'.op \in {"GET config", "POST render"}
      /\ (ask'.version # Null => int(ask'.version.s) # Null))
       => LET match == Matching(rows, ask'.service, ask'.version)
          IN /\ out' = NotFound <=> match = {}
             /\ (ask'.op = "GET config" /\ ask'.template # "1") =>
                  \A j \in match : out' = Ok(rows[j].payload)]_vars

\* service a holds versions 1 and 2 and a read of (a, 1) was answered with
\* the payload stored first
C12_ReadOlderVersion ==
  /\ Len(rows) = 2
  /\ rows[1].service = "a" /\ rows[1].version = 1
  /\ rows[2].service = "a" /\ rows[2].version = 2
  /\ rows[1].payload # rows[2].payload
  /\ ask = [op |-> "GET config", service |-> "a", version |-> StrV("1"),
            template |-> "", body |-> ""]
  /\ out = Ok(rows[1].payload)

\* a read of a service without rows, from a store that has rows, was
\* answered NotFound
C12_UnknownService ==
  /\ Len(rows) > 0
  /\ \A j \in DOMAIN rows : rows[j].service = "a"
  /\ ask = [op |-> "GET config", service |-> "b", version |-> Null,
            template |-> "", body |-> ""]
  /\ out = NotFound

\* C13: GET config with or without template=1, POST render and GET history
\* leave the stored rows as they were, whatever they answer.
C13_ReadsKeepStore ==
  [][ReadStep => rows' = rows]_vars

\* a read with template=1 failed in rendering a stored document
C13_RenderFailedOnRead ==
  /\ Len(rows) > 0
  /\ ask.op = "GET config"
  /\ ask.template = "1"
  /\ out = UnprocessableEntity(<<"Template render error: 'missing' is undefined">>)

\* C17: a call of render_config, returning or raising, leaves the caller's
\* document and the caller's context equal to what they were before it.
C17_RenderKeepsInputs ==
  [][(rendered = Unset /\ rendered' # Unset)
       => (document' = document /\ context' = context)]_vars

\* a document with `{{xs.append(1)}}` was rendered under a context whose xs
\* was the empty list: the render succeeded, a later leaf printed the grown
\* list, and the caller's list now holds two items
C17_ContextListGrew ==
  /\ document = MapV([a |-> StrV("{{xs.append(1)}}"),
                      b |-> ListV(<<StrV("{{xs}}"),
                                    MapV([c |-> StrV("{{xs.append(1)}}")])>>)])
  /\ rendered = MapV([a |-> StrV("None"),
                      b |-> ListV(<<StrV("[1]"), MapV([c |-> StrV("None")])>>)])
  /\ context = MapV([host |-> StrV("x"), xs |-> ListV(<<IntV(1), IntV(1)>>)])

\* the version a read of the service with the version omitted answers: the
\* `version` of the document GET /config/<service> returns
LatestRead(s) == get_config_response(rows, s, Null).body.m["version"]

\* the step answers a history request for a service that has rows, with a
\* limit of at least 1
HistoryStep ==
  /\ ask' # ask
  /\ ask'.op \in {"GET history", "get_history"}
  /\ ask'.op = "get_history" => ask'.limit >= 1
  /\ ServiceRows(rows, ask'.service) # {}

\* the version of the first entry of the history the step answers
FirstOfHistory ==
  IF ask'.op = "GET history"
    THEN IntV(out'.body[1].version)
    ELSE IntV(out'.result[1][1])

\* C21 (as claimed): for every service with rows, whatever versions were
\* saved, the first entry of history(service, limit), limit >= 1, has the
\* version that a read with the version omitted answers.
C21_LatestAgree ==
  [][HistoryStep => FirstOfHistory = LatestRead(ask'.service)]_vars

\* C21 (amended): for every service with rows whose versions were saved in
\* increasing order, as when every submission omitted `version`, the first
\* entry of history(service, limit), limit >= 1, has the version that a read
\* with the version omitted answers.
C21_LatestAgreeWhenIncreasing ==
  [][(HistoryStep /\ Increasing(ask'.service))
       => FirstOfHistory = LatestRead(ask'.service)]_vars

\* service a holds an explicit version 0 and then two assigned versions, its
\* history was read, and the first entry is the version a read answers
C21_ExplicitThenAssigned ==
  /\ Cardinality(ServiceRows(rows, "a")) = 3
  /\ Increasing("a")
  /\ \E j \in ServiceRows(rows, "a") : rows[j].payload.m["database"] = Database("e")
  /\ \E j \in ServiceRows(rows, "a") : rows[j].payload.m["database"] = Database("h")
  /\ ask = [op |-> "GET history", service |-> "a"]
  /\ out.status = 200
  /\ IntV(out.body[1].version) = LatestRead("a")
  /\ LatestRead("a") = IntV(2)

====
